---- MODULE Spec2Model ----
(***************************************************************************)
(* A model of src/hc/ref.py: a Tkinter script that builds one window with  *)
(* an Entry (name_entry), a Label (result_label), a Text (info_text_box)   *)
(* and two Buttons bound to handle_button_click and clear_text_box, then   *)
(* runs window.mainloop() until the window is closed.                      *)
(*                                                                         *)
(* Strings are TLA+ strings; \o is concatenation, Len the length and       *)
(* SubSeq the slice.  The content of the Text widget is modelled WITHOUT   *)
(* the final newline Tk keeps at the end of every Text widget: that        *)
(* newline is not part of what was inserted and cannot be deleted.  A      *)
(* position in the Text widget is a character offset: '1.0' is offset 0    *)
(* and tk.END is the position after Tk's final newline, Len(t) + 1.        *)
(***************************************************************************)
EXTENDS Integers, Sequences, FiniteSets, TLC

(* Bounds of the model: the longest name the user types into name_entry,   *)
(* and the length of info_text_box up to which the user keeps typing.      *)
MaxNameLen == 2
MaxAreaLen == 14

(* The characters the user types: a letter and a blank into name_entry, a  *)
(* letter into info_text_box.                                              *)
EntryChars == {"A", " "}
AreaChars == {"x"}

VARIABLES
    pc,          \* position of the script / of the event loop thread
    alive,       \* the widgets that exist (created and not destroyed)
    built,       \* built[x]: how many times widget x has been created
    command,     \* command[b]: the function bound to button b ("" = none)
    w,           \* the widgets' values: name_entry, result_label, info_text_box
    last,        \* history: the most recent event the loop dispatched
    pre,         \* history: w when the most recent handler was invoked
    greeted,     \* history: handle_button_click has run at least once
    greet_name   \* history: name_entry's value at the most recent greet

vars == <<pc, alive, built, command, w, last, pre, greeted, greet_name>>

Widgets == {"window", "name_entry", "greet_button", "result_label",
            "info_text_box", "clear_button"}
Buttons == {"greet_button", "clear_button"}

(* The statements of the script's set-up, in their order in the file.      *)
Construction == <<"window", "name_entry", "greet_button", "result_label",
                  "info_text_box", "prefill_1", "prefill_2", "clear_button",
                  "mainloop">>

ConstructionPcs == {Construction[i] : i \in DOMAIN Construction}

(* The literals of the script.                                             *)
Placeholder == "...waiting for a greeting..."
DefaultUserName == "World"
TextCleared == "Text cleared!"
PrefillLine1 == "This is a Text widget. It can hold multiple lines.\n"
PrefillLine2 == "The button above will 'get' from the 'Entry' and 'config' the label.\n"

NoSnapshot == [name_entry |-> "", result_label |-> "", info_text_box |-> ""]

(* constructing -> running -> terminated, read off the position.           *)
Phase == IF pc \in ConstructionPcs THEN "constructing"
         ELSE IF pc = "done" THEN "terminated"
         ELSE "running"

(***************************************************************************)
(* The Text widget (tk.Text), on its content without Tk's final newline.   *)
(***************************************************************************)

(* tk.END: the position after the last character of the widget, which is   *)
(* Tk's own final newline.                                                 *)
TkEnd(t) == Len(t) + 1

(* An index past the inserted content stands at Tk's final newline.        *)
Clamp(t, index) == IF index > Len(t) THEN Len(t) ELSE index

(* Text.insert(index, chars): chars go in before the character at index;   *)
(* at tk.END they go in before Tk's final newline, after all the content.  *)
Text_insert(t, index, chars) ==
    SubSeq(t, 1, Clamp(t, index)) \o chars \o SubSeq(t, Clamp(t, index) + 1, Len(t))

(* Text.delete(index1, index2): the characters from index1 up to, not      *)
(* including, index2 go; Tk's final newline stays.  The script only ever   *)
(* deletes from '1.0'.                                                     *)
Text_delete(t, index1, index2) ==
    SubSeq(t, 1, Clamp(t, index1)) \o SubSeq(t, Clamp(t, index2) + 1, Len(t))

(***************************************************************************)
(* handle_button_click                                                     *)
(***************************************************************************)

(* Mutant: the emptiness test made after stripping blanks, as in           *)
(* `if not user_name.strip()`.                                             *)
DefaultName_stripped(user_name) ==
    IF \A i \in 1..Len(user_name) : SubSeq(user_name, i, i) = " "
    THEN DefaultUserName ELSE user_name

(* Mutant: the test `if user_name is None`, which an Entry's str never     *)
(* passes, so the default is never substituted.                            *)
DefaultName_is_none(user_name) == user_name

(* `if not user_name: user_name = "World"`: a str is falsy exactly when    *)
(* its length is 0.                                                        *)
DefaultName(user_name) ==
    IF Len(user_name) = 0 THEN DefaultUserName ELSE user_name

(* f"Hello, {user_name}! Welcome to HCI."                                  *)
Greeting(user_name) == "Hello, " \o user_name \o "! Welcome to HCI."

(* Mutant: the handler also empties name_entry once it has greeted, as     *)
(* with a trailing name_entry.delete(0, tk.END).                           *)
handle_button_click_w_emptying(s) ==
    [s EXCEPT !.result_label = Greeting(DefaultName(s.name_entry)),
              !.name_entry = ""]

(* The handler on the widgets' values s: name_entry.get(), the default,    *)
(* the greeting, result_label.config(text=greeting).                       *)
handle_button_click_w(s) ==
    [s EXCEPT !.result_label = Greeting(DefaultName(s.name_entry))]

(***************************************************************************)
(* clear_text_box                                                          *)
(***************************************************************************)

(* The offset of '2.0', the start of the second line: after the first      *)
(* newline of the content, or after Tk's final newline when it has none.   *)
SecondLine(t) ==
    IF \E i \in 1..Len(t) : SubSeq(t, i, i) = "\n"
    THEN CHOOSE i \in 1..Len(t) :
             /\ SubSeq(t, i, i) = "\n"
             /\ \A j \in 1..(i - 1) : SubSeq(t, j, j) # "\n"
    ELSE TkEnd(t)

(* Mutant: info_text_box.delete('1.0'), which deletes one character.       *)
clear_delete_one_char(s) ==
    [s EXCEPT !.info_text_box = Text_delete(@, 0, 1)]

(* Mutant: info_text_box.delete('1.0', '2.0'), which deletes one line.     *)
clear_delete_one_line(s) ==
    [s EXCEPT !.info_text_box = Text_delete(@, 0, SecondLine(@))]

(* Mutant: the handler empties name_entry as well as info_text_box.        *)
clear_delete_entry_too(s) ==
    [s EXCEPT !.info_text_box = Text_delete(@, 0, TkEnd(@)),
              !.name_entry = ""]

(* info_text_box.delete('1.0', tk.END)                                     *)
clear_delete(s) ==
    [s EXCEPT !.info_text_box = Text_delete(@, 0, TkEnd(@))]

(* Mutant: the handler also puts result_label back to its first text.      *)
clear_insert_resetting_label(s) ==
    [s EXCEPT !.info_text_box = Text_insert(@, 0, TextCleared),
              !.result_label = Placeholder]

(* info_text_box.insert('1.0', "Text cleared!")                            *)
clear_insert(s) ==
    [s EXCEPT !.info_text_box = Text_insert(@, 0, TextCleared)]

(* The whole handler: its two statements one after the other.              *)
clear_text_box_w(s) == clear_insert(clear_delete(s))

(***************************************************************************)
(* The script's set-up, one action per widget it creates.                  *)
(***************************************************************************)

Init ==
    /\ pc = Construction[1]
    /\ alive = {}
    /\ built = [x \in Widgets |-> 0]
    /\ command = [b \in Buttons |-> ""]
    /\ w = NoSnapshot
    /\ last = "none"
    /\ pre = NoSnapshot
    /\ greeted = FALSE
    /\ greet_name = ""

(* The statement after statement i of the set-up.                          *)
Following(x) ==
    LET i == CHOOSE k \in DOMAIN Construction : Construction[k] = x
    IN  IF i < Len(Construction) THEN Construction[i + 1] ELSE "idle"

(* Widget x comes into existence at its statement of the script.           *)
Create(x) ==
    /\ pc = x
    /\ pc' = Following(x)
    /\ alive' = alive \cup {x}
    /\ built' = [built EXCEPT ![x] = @ + 1]

(* window = tk.Tk() with its title, geometry and main_frame.               *)
CreateWindow ==
    /\ Create("window")
    /\ UNCHANGED <<command, w, last, pre, greeted, greet_name>>

(* name_entry = ttk.Entry(main_frame, width=40): an empty Entry.           *)
CreateNameEntry ==
    /\ "window" \in alive
    /\ Create("name_entry")
    /\ w' = [w EXCEPT !.name_entry = ""]
    /\ UNCHANGED <<command, last, pre, greeted, greet_name>>

(* greet_button = ttk.Button(..., command=handle_button_click)             *)
CreateGreetButton ==
    /\ "window" \in alive
    /\ Create("greet_button")
    /\ command' = [command EXCEPT !["greet_button"] = "handle_button_click"]
    /\ UNCHANGED <<w, last, pre, greeted, greet_name>>

(* result_label = ttk.Label(..., text="...waiting for a greeting...")      *)
CreateResultLabel ==
    /\ "window" \in alive
    /\ Create("result_label")
    /\ w' = [w EXCEPT !.result_label = Placeholder]
    /\ UNCHANGED <<command, last, pre, greeted, greet_name>>

(* info_text_box = tk.Text(main_frame, height=8, width=50): empty.         *)
CreateInfoTextBox ==
    /\ "window" \in alive
    /\ Create("info_text_box")
    /\ w' = [w EXCEPT !.info_text_box = ""]
    /\ UNCHANGED <<command, last, pre, greeted, greet_name>>

(* info_text_box.insert(tk.END, "This is a Text widget. ...\n")            *)
Prefill1 ==
    /\ pc = "prefill_1"
    /\ "info_text_box" \in alive
    /\ pc' = Following("prefill_1")
    /\ w' = [w EXCEPT !.info_text_box = Text_insert(@, TkEnd(@), PrefillLine1)]
    /\ UNCHANGED <<alive, built, command, last, pre, greeted, greet_name>>

(* Mutant: the second line inserted at '1.0' instead of tk.END.            *)
Prefill2_at_start ==
    /\ pc = "prefill_2"
    /\ "info_text_box" \in alive
    /\ pc' = Following("prefill_2")
    /\ w' = [w EXCEPT !.info_text_box = Text_insert(@, 0, PrefillLine2)]
    /\ UNCHANGED <<alive, built, command, last, pre, greeted, greet_name>>

(* info_text_box.insert(tk.END, "The button above will ...\n")             *)
Prefill2 ==
    /\ pc = "prefill_2"
    /\ "info_text_box" \in alive
    /\ pc' = Following("prefill_2")
    /\ w' = [w EXCEPT !.info_text_box = Text_insert(@, TkEnd(@), PrefillLine2)]
    /\ UNCHANGED <<alive, built, command, last, pre, greeted, greet_name>>

(* Mutant: command=clear_text_box(), which runs the handler while the      *)
(* button is created and binds its result, None, to the button.            *)
CreateClearButton_calling ==
    /\ "window" \in alive
    /\ Create("clear_button")
    /\ w' = clear_text_box_w(w)
    /\ UNCHANGED <<command, last, pre, greeted, greet_name>>

(* clear_button = ttk.Button(..., command=clear_text_box)                  *)
CreateClearButton ==
    /\ "window" \in alive
    /\ Create("clear_button")
    /\ command' = [command EXCEPT !["clear_button"] = "clear_text_box"]
    /\ UNCHANGED <<w, last, pre, greeted, greet_name>>

(* window.mainloop(): the script's last statement enters the event loop.   *)
EnterMainloop ==
    /\ pc = "mainloop"
    /\ "window" \in alive
    /\ pc' = Following("mainloop")
    /\ UNCHANGED <<alive, built, command, w, last, pre, greeted, greet_name>>

(***************************************************************************)
(* The event loop.  window.mainloop() takes one event at a time off Tk's   *)
(* queue and runs its binding to the end before it takes the next; neither *)
(* handler calls update(), so no event is dispatched inside a handler.     *)
(***************************************************************************)

(* Mutant: the handler calls window.update() between its two statements,   *)
(* so the loop dispatches pending events inside it.                        *)
Dispatchable_in_handler == pc \in {"idle", "clear_deleted"}

(* The loop is between two events: no handler is running.                  *)
Dispatchable == pc = "idle"

(* A click on a button bound to function f.                                *)
Clicked(f) == \E b \in Buttons : b \in alive /\ command[b] = f

(* The user types character c at the end of name_entry.                    *)
EntryType(c) ==
    /\ Dispatchable
    /\ "name_entry" \in alive
    /\ Len(w.name_entry) < MaxNameLen
    /\ w' = [w EXCEPT !.name_entry = @ \o c]
    /\ last' = "edit"
    /\ pre' = NoSnapshot
    /\ UNCHANGED <<pc, alive, built, command, greeted, greet_name>>

(* The user deletes the last character of name_entry.                      *)
EntryBackspace ==
    /\ Dispatchable
    /\ "name_entry" \in alive
    /\ Len(w.name_entry) > 0
    /\ w' = [w EXCEPT !.name_entry = SubSeq(@, 1, Len(@) - 1)]
    /\ last' = "edit"
    /\ pre' = NoSnapshot
    /\ UNCHANGED <<pc, alive, built, command, greeted, greet_name>>

(* The user types character c at the end of info_text_box.                 *)
TextType(c) ==
    /\ Dispatchable
    /\ "info_text_box" \in alive
    /\ Len(w.info_text_box) < MaxAreaLen
    /\ w' = [w EXCEPT !.info_text_box = @ \o c]
    /\ last' = "edit"
    /\ pre' = NoSnapshot
    /\ UNCHANGED <<pc, alive, built, command, greeted, greet_name>>

(* The user deletes the last character of info_text_box.                   *)
TextBackspace ==
    /\ Dispatchable
    /\ "info_text_box" \in alive
    /\ Len(w.info_text_box) > 0
    /\ w' = [w EXCEPT !.info_text_box = SubSeq(@, 1, Len(@) - 1)]
    /\ last' = "edit"
    /\ pre' = NoSnapshot
    /\ UNCHANGED <<pc, alive, built, command, greeted, greet_name>>

(* The user selects all of info_text_box and deletes it.                   *)
TextSelectAllDelete ==
    /\ Dispatchable
    /\ "info_text_box" \in alive
    /\ Len(w.info_text_box) > 0
    /\ w' = [w EXCEPT !.info_text_box = ""]
    /\ last' = "edit"
    /\ pre' = NoSnapshot
    /\ UNCHANGED <<pc, alive, built, command, greeted, greet_name>>

(* A click on the button bound to handle_button_click runs the handler.    *)
handle_button_click ==
    /\ Dispatchable
    /\ Clicked("handle_button_click")
    /\ w' = handle_button_click_w(w)
    /\ last' = "greet"
    /\ pre' = w
    /\ greeted' = TRUE
    /\ greet_name' = w.name_entry
    /\ UNCHANGED <<pc, alive, built, command>>

(* A click on the button bound to clear_text_box: the handler's first      *)
(* statement, info_text_box.delete('1.0', tk.END).                         *)
clear_text_box_delete ==
    /\ Dispatchable
    /\ Clicked("clear_text_box")
    /\ w' = clear_delete(w)
    /\ pc' = "clear_deleted"
    /\ last' = "clear"
    /\ pre' = w
    /\ UNCHANGED <<alive, built, command, greeted, greet_name>>

(* The handler's second statement, info_text_box.insert('1.0', ...), after *)
(* which it returns to the loop.                                           *)
clear_text_box_insert ==
    /\ pc = "clear_deleted"
    /\ w' = clear_insert(w)
    /\ pc' = "idle"
    /\ UNCHANGED <<alive, built, command, last, pre, greeted, greet_name>>

(* The user closes the window: Tk destroys the window and every widget in  *)
(* it, mainloop() returns and the script ends.                             *)
WindowClose ==
    /\ Dispatchable
    /\ "window" \in alive
    /\ pc' = "done"
    /\ alive' = {}
    /\ UNCHANGED <<built, command, w, last, pre, greeted, greet_name>>

Next ==
    \/ CreateWindow
    \/ CreateNameEntry
    \/ CreateGreetButton
    \/ CreateResultLabel
    \/ CreateInfoTextBox
    \/ Prefill1
    \/ Prefill2
    \/ CreateClearButton
    \/ EnterMainloop
    \/ \E c \in EntryChars : EntryType(c)
    \/ EntryBackspace
    \/ \E c \in AreaChars : TextType(c)
    \/ TextBackspace
    \/ TextSelectAllDelete
    \/ handle_button_click
    \/ clear_text_box_delete
    \/ clear_text_box_insert
    \/ WindowClose

Spec == Init /\ [][Next]_vars

(***************************************************************************)
(* The properties.  `last` and `pre` say which event the loop dispatched   *)
(* most recently and what the widgets held when its handler was invoked;   *)
(* a handler has returned when the loop is no longer inside it.            *)
(***************************************************************************)

Returned(handler) == last = handler /\ pc # "clear_deleted"

(* C1: for every non-empty string s in name_entry, blank strings included, *)
(* handle_button_click leaves result_label holding exactly                 *)
(* "Hello, " + s + "! Welcome to HCI.", whatever it held before; for "Ada" *)
(* that is "Hello, Ada! Welcome to HCI.".                                  *)
C1_GreetNonEmpty ==
    /\ (Returned("greet") /\ Len(pre.name_entry) > 0)
          => w.result_label = "Hello, " \o pre.name_entry \o "! Welcome to HCI."
    /\ Greeting(DefaultName("Ada")) = "Hello, Ada! Welcome to HCI."

(* The handler has just greeted a name that is one blank, over an earlier  *)
(* greeting.                                                               *)
C1_Witness ==
    /\ Returned("greet")
    /\ pre.name_entry = " "
    /\ pre.result_label = "Hello, A! Welcome to HCI."
    /\ w.result_label = "Hello,  ! Welcome to HCI."

(* C2: with name_entry empty, handle_button_click leaves result_label      *)
(* holding exactly "Hello, World! Welcome to HCI."; with anything else in  *)
(* name_entry no default is substituted: the greeting is of that string.   *)
C2_GreetEmpty ==
    Returned("greet") =>
        w.result_label =
            IF pre.name_entry = ""
            THEN "Hello, World! Welcome to HCI."
            ELSE "Hello, " \o pre.name_entry \o "! Welcome to HCI."

(* The handler has just greeted the empty name.                            *)
C2_Witness ==
    /\ Returned("greet")
    /\ pre.name_entry = ""
    /\ w.result_label = "Hello, World! Welcome to HCI."

(* C3: whatever info_text_box held, once clear_text_box has returned it    *)
(* holds exactly "Text cleared!".                                          *)
C3_ClearSetsText ==
    Returned("clear") => w.info_text_box = "Text cleared!"

(* The handler has just cleared the two lines the script put in.           *)
C3_Witness ==
    /\ Returned("clear")
    /\ pre.info_text_box = PrefillLine1 \o PrefillLine2
    /\ w.info_text_box = "Text cleared!"

(* C4: when the event loop has been entered and has dispatched nothing     *)
(* yet, info_text_box holds the two lines of the script, each with its     *)
(* newline and in the order of their insertion, result_label holds         *)
(* "...waiting for a greeting..." and name_entry is empty.                 *)
C4_InitialState ==
    (pc = "idle" /\ last = "none") =>
        /\ w.info_text_box =
              "This is a Text widget. It can hold multiple lines.\nThe button above will 'get' from the 'Entry' and 'config' the label.\n"
        /\ w.result_label = "...waiting for a greeting..."
        /\ w.name_entry = ""

(* The loop has been entered, every widget exists, nothing has happened.   *)
C4_Witness ==
    /\ pc = "idle"
    /\ last = "none"
    /\ alive = Widgets
    /\ w.info_text_box # ""

(* C5: handle_button_click leaves name_entry and info_text_box as they     *)
(* were when it was invoked.                                               *)
C5_GreetFrame ==
    Returned("greet") =>
        /\ w.name_entry = pre.name_entry
        /\ w.info_text_box = pre.info_text_box

(* The handler has just changed result_label, with a name in name_entry    *)
(* and text in info_text_box.                                              *)
C5_Witness ==
    /\ Returned("greet")
    /\ w.result_label # pre.result_label
    /\ pre.name_entry # ""
    /\ pre.info_text_box # ""

(* C6: once the loop runs, result_label holds the placeholder as long as   *)
(* handle_button_click has never run, and afterwards the greeting of what  *)
(* name_entry held at its most recent run, whatever edits and clears came  *)
(* in between or later.                                                    *)
C6_LabelOnlyByGreet ==
    Phase # "constructing" =>
        w.result_label =
            IF greeted
            THEN "Hello, " \o (IF greet_name = "" THEN "World" ELSE greet_name)
                     \o "! Welcome to HCI."
            ELSE "...waiting for a greeting..."

(* After a greeting the user has changed name_entry and then the text box  *)
(* has been cleared.                                                       *)
C6_Witness ==
    /\ greeted
    /\ Returned("clear")
    /\ w.name_entry # greet_name
    /\ greet_name # ""

(* One step of the lifecycle.                                              *)
LifecycleStep ==
    /\ \A x \in Widgets : built'[x] <= 1
    /\ built' # built => Phase = "constructing"
    /\ Phase' # Phase =>
          \/ /\ Phase = "constructing"
             /\ Phase' = "running"
             /\ \A x \in Widgets : built[x] = 1
             /\ alive = Widgets
             /\ command = [b \in Buttons |->
                              IF b = "greet_button" THEN "handle_button_click"
                                                    ELSE "clear_text_box"]
          \/ /\ Phase = "running"
             /\ Phase' = "terminated"
             /\ WindowClose
    /\ (handle_button_click \/ clear_text_box_delete \/ clear_text_box_insert)
          => (Phase = "running" /\ Phase' = "running")
    /\ (w' # w \/ last' # last) =>
          (Phase = "constructing" \/ (Phase = "running" /\ Phase' = "running"))
    /\ (command' # command \/ alive' # alive) =>
          (Phase = "constructing" \/ WindowClose)
    /\ Phase # "terminated"

(* C7: the lifecycle is constructing -> running -> terminated and nothing  *)
(* else: every widget and both bindings are made once, before running;     *)
(* handlers run in the running state only; the window-close event alone    *)
(* leaves running; from terminated no step is taken.                       *)
C7_Lifecycle == [][LifecycleStep]_vars

(* The window has been closed after both handlers ran.                     *)
C7_Witness ==
    /\ Phase = "terminated"
    /\ greeted
    /\ last = "clear"
    /\ alive = {}

(* C8: from the state in which clear_text_box has emptied info_text_box    *)
(* and not yet refilled it, the only step is the handler's own insert: no  *)
(* edit, greeting or window-close happens there.                           *)
C8_ClearAtomic ==
    [][pc = "clear_deleted" =>
          /\ w.info_text_box = ""
          /\ pc' = "idle"
          /\ w' = [w EXCEPT !.info_text_box = "Text cleared!"]
          /\ UNCHANGED <<alive, built, command, last, pre, greeted, greet_name>>]_vars

(* The handler stands between its two statements, having emptied text.     *)
C8_Witness ==
    /\ pc = "clear_deleted"
    /\ pre.info_text_box # ""
    /\ w.info_text_box = ""

(* C9: from every state of the running loop, clear_text_box run twice      *)
(* leaves every widget as clear_text_box run once does; and a run of it on *)
(* a text box that already holds "Text cleared!" changes no widget.        *)
C9_ClearIdempotent ==
    /\ pc = "idle" => clear_text_box_w(clear_text_box_w(w)) = clear_text_box_w(w)
    /\ (Returned("clear") /\ pre.info_text_box = "Text cleared!") => w = pre

(* The handler has just run on a text box that held "Text cleared!".       *)
C9_Witness ==
    /\ Returned("clear")
    /\ pc = "idle"
    /\ pre.info_text_box = "Text cleared!"
    /\ w.info_text_box = "Text cleared!"

(* C10: clear_text_box leaves name_entry and result_label as they were,    *)
(* and from every state of the running loop greeting then clearing leaves  *)
(* the three widgets as clearing then greeting does.                       *)
C10_ClearFrameCommutes ==
    /\ last = "clear" =>
          /\ w.name_entry = pre.name_entry
          /\ w.result_label = pre.result_label
    /\ pc = "idle" =>
          clear_text_box_w(handle_button_click_w(w)) =
              handle_button_click_w(clear_text_box_w(w))

(* The text box has just been cleared with a name in name_entry that the   *)
(* label greets.                                                           *)
C10_Witness ==
    /\ Returned("clear")
    /\ pc = "idle"
    /\ greeted
    /\ pre.name_entry # ""
    /\ pre.name_entry = greet_name
    /\ pre.info_text_box # "Text cleared!"

====
